---- MODULE Spec2Model ----
(***************************************************************************)
(* The interrupt-driven tty driver of src/tty.c: ttyinit, ttyread,         *)
(* ttywrite, ttycontrol in the foreground, irqinthandc at interrupt level, *)
(* the three global queues they share and the UART/CPU state they drive.   *)
(*                                                                         *)
(* The foreground is one call stack (pc and the locals of the running      *)
(* call).  An interrupt handler runs to completion with interrupts off     *)
(* (interrupt gate), so irqinthandc is one action; it can fire between     *)
(* any two foreground steps at which the CPU interrupt flag is set.        *)
(* queue/queue.c is not among the sources: the queue is modelled from      *)
(* section 4.1 and section 3 of the specification (array, front, rear,     *)
(* count, max).                                                            *)
(***************************************************************************)
EXTENDS Integers, Sequences, FiniteSets, TLC

\* ---------------------------------------------------------------- bounds
MaxRx == 3        \* bytes the two serial lines deliver in a run
MaxTx == 7        \* bytes the callers hand to ttywrite in a run
MaxRead == 3      \* largest nchar of a ttyread call
MaxCalls == 3     \* driver calls the foreground makes in a run
MaxBurst == 7     \* bytes the lines deliver in a run of BurstSpec (one more than a queue holds)
MaxIO == 8        \* bytes of a run, delivered and handed to ttywrite together

\* ------------------------------------------------------------- constants
MAXBUF == 6       \* tty.h: capacity of every queue
EMPTYQUE == -1    \* queue.h: dequeue on an empty queue
FULLQUE == -1     \* queue.h: enqueue on a full queue

TTY0 == 0
TTY1 == 1
BADDEV == 2       \* a devtab entry whose dvbaseport is no COM port
Lines == {TTY0, TTY1}
Devs == Lines \cup {BADDEV}

\* devtab[dev].dvbaseport
dvbaseport(dev) ==
  CASE dev = TTY0 -> "COM1_BASE"
    [] dev = TTY1 -> "COM2_BASE"
    [] OTHER -> "NONE"

NoByte == 0

\* Bytes carry their origin: the k-th byte arriving on line d, and the t-th
\* byte handed to ttywrite for line d.  Later arrivals have larger values.
RxByte(k, d) == 10 * k + d
TxByte(t, d) == 100 + 10 * t + d
LineOf(b) == b % 10
IsRx(b) == b > 0 /\ b < 100
IsTx(b) == b > 100

\* ----------------------------------------------------------------- queue
Slots == 0 .. (MAXBUF - 1)

ZeroQueue == [contents |-> [s \in Slots |-> NoByte],
              front |-> 0, rear |-> 0, count |-> 0, max |-> 0]

init_queue(q, n) == [q EXCEPT !.front = 0, !.rear = 0, !.count = 0, !.max = n]

queuecount(q) == q.count

\* enqueue up to, not including, the update of count
enqueue_store(q, x) ==
  [q EXCEPT !.contents[q.rear] = x, !.rear = (q.rear + 1) % q.max]

enqueue(q, x) ==
  IF q.count >= q.max
    THEN [q |-> q, r |-> FULLQUE]
    ELSE [q |-> [enqueue_store(q, x) EXCEPT !.count = q.count + 1], r |-> 0]

dequeue(q) ==
  IF q.count <= 0
    THEN [q |-> q, r |-> EMPTYQUE]
    ELSE [q |-> [q EXCEPT !.front = (q.front + 1) % q.max,
                          !.count = q.count - 1],
          r |-> q.contents[q.front]]

\* the bytes a queue holds, oldest first
Items(q) == [k \in 1 .. q.count |-> q.contents[(q.front + k - 1) % q.max]]

\* ----------------------------------------------------------------- state
VARIABLES
  inQueue, outQueue, echoQueue,  \* tty.c: the three global queues
  echoflag,                      \* ttytab[dev].echoflag
  gate, picen,                   \* lines with an interrupt gate / PIC line enabled
  eflags_IF,                     \* CPU interrupt flag
  ier, rbr, thre,                \* UART per line: IER, receive register, THR empty
  isrlog,                        \* what the latest irqinthandc invocation did, in order
  pc, op, dev, nchar, buf, i, saved_eflags, cnt0, ret,   \* the running foreground call
  retry,                         \* the running ttywrite found the queue full
  fncode, val,                   \* ttycontrol's arguments
  rxCount, txCount,              \* bytes delivered by the lines / handed to ttywrite
  rxAcc,                         \* bytes irqinthandc enqueued into inQueue since its init
  outAcc, outSent,               \* bytes enqueued into / dequeued from outQueue since its init
  intr,                          \* an interrupt handler ran since the running call began
  entry_IF,                      \* the CPU interrupt flag when the running call was entered
  calls                          \* driver calls made so far

queues == <<inQueue, outQueue, echoQueue>>
hw == <<ier, rbr, thre>>
frame == <<pc, op, dev, nchar, entry_IF, buf, i, saved_eflags, cnt0, ret, fncode, val, retry>>
ghost == <<rxCount, txCount, rxAcc, outAcc, outSent, calls>>
vars == <<queues, echoflag, gate, picen, eflags_IF, hw, isrlog, frame, intr, ghost>>

Init ==
  /\ inQueue = ZeroQueue /\ outQueue = ZeroQueue /\ echoQueue = ZeroQueue
  /\ echoflag = [d \in Lines |-> 0]
  /\ gate = {} /\ picen = {}
  /\ eflags_IF = TRUE
  /\ ier = [d \in Lines |-> {}]
  /\ rbr = [d \in Lines |-> NoByte]
  /\ thre = [d \in Lines |-> TRUE]
  /\ isrlog = <<>>
  /\ pc = "idle" /\ op = "none" /\ dev = TTY0 /\ nchar = 0 /\ buf = <<>> /\ i = 0
  /\ saved_eflags = TRUE /\ cnt0 = 0 /\ ret = 0 /\ retry = FALSE /\ intr = FALSE /\ calls = 0
  /\ entry_IF = TRUE
  /\ fncode = "ECHOCONTROL" /\ val = 0
  /\ rxCount = 0 /\ txCount = 0
  /\ rxAcc = <<>> /\ outAcc = <<>> /\ outSent = <<>>

\* lines on which ttyinit has run to completion
inited == {d \in Lines : d \in gate /\ d \in picen}

\* -------------------------------------------------------------- hardware
\* a byte arrives on line d (an unread byte in the receive register is overrun)
Receive(d) ==
  /\ rxCount < MaxRx /\ rxCount + txCount < MaxIO
  /\ rxCount' = rxCount + 1
  /\ rbr' = [rbr EXCEPT ![d] = RxByte(rxCount + 1, d)]
  /\ UNCHANGED <<queues, echoflag, gate, picen, eflags_IF, ier, thre,
                 isrlog, frame, intr, txCount, rxAcc, outAcc, outSent, calls>>

\* a byte arrives on line d, in a run in which a line delivers a burst
ReceiveBurst(d) ==
  /\ rxCount < MaxBurst
  /\ rxCount' = rxCount + 1
  /\ rbr' = [rbr EXCEPT ![d] = RxByte(rxCount + 1, d)]
  /\ UNCHANGED <<queues, echoflag, gate, picen, eflags_IF, ier, thre,
                 isrlog, frame, intr, txCount, rxAcc, outAcc, outSent, calls>>

\* the transmitter has shifted the holding register out
Shift(d) ==
  /\ ~thre[d]
  /\ thre' = [thre EXCEPT ![d] = TRUE]
  /\ UNCHANGED <<queues, echoflag, gate, picen, eflags_IF, ier, rbr,
                 isrlog, frame, intr, ghost>>

\* the interrupt conditions of line d and the identification the UART reports
RdiPending(d) == "RDI" \in ier[d] /\ rbr[d] # NoByte
ThriPending(d) == "THRI" \in ier[d] /\ thre[d]
IntrRaised(d) == RdiPending(d) \/ ThriPending(d)
IIR(d) == IF RdiPending(d) THEN "RDI" ELSE IF ThriPending(d) THEN "THRI" ELSE "NO_INT"

\* -------------------------------------------------------- irqinthandc
Ev(o, q, v) == [op |-> o, q |-> q, v |-> v]
NoOp(q) == [q |-> q, r |-> 0, log |-> <<>>]

\* RxEnqueue storing the byte whether or not the queue has room
RxEnqueue_force(ch) ==
  [q |-> [enqueue_store(inQueue, ch) EXCEPT !.count = inQueue.count + 1], r |-> 0,
   log |-> <<Ev("enqueue", "in", ch)>>]

\* case UART_IIR_RDI: enqueue(&inQueue, ch)
RxEnqueue(ch) ==
  LET e == enqueue(inQueue, ch)
  IN [q |-> e.q, r |-> e.r,
      log |-> <<Ev(IF e.r = FULLQUE THEN "enqueue_full" ELSE "enqueue", "in", ch)>>]

\* RxEcho without the test of the echo flag
RxEcho_always(d, ch) ==
  LET e == enqueue(echoQueue, ch)
  IN [q |-> e.q, r |-> e.r,
      log |-> <<Ev(IF e.r = FULLQUE THEN "enqueue_full" ELSE "enqueue", "echo", ch)>>]

\* case UART_IIR_RDI: if (tty->echoflag) enqueue(&echoQueue, ch)
RxEcho(d, ch) ==
  IF echoflag[d] # 0
    THEN LET e == enqueue(echoQueue, ch)
         IN [q |-> e.q, r |-> e.r,
             log |-> <<Ev(IF e.r = FULLQUE THEN "enqueue_full" ELSE "enqueue", "echo", ch)>>]
    ELSE NoOp(echoQueue)

\* if (queuecount(&q)) outpt(baseport+UART_TX, dequeue(&q))
TxFrom(q, name) ==
  IF queuecount(q) # 0
    THEN LET e == dequeue(q)
         IN [q |-> e.q, r |-> e.r, sent |-> <<e.r>>,
             log |-> <<Ev("dequeue", name, e.r), Ev("outpt_tx", name, e.r)>>]
    ELSE [q |-> q, r |-> 0, sent |-> <<>>, log |-> <<>>]

\* which case labels of the switch an identification value executes:
\* case UART_IIR_RDI has no break and runs on into case UART_IIR_THRI
RunsRx(iir) == iir = "RDI"
\* RunsTx with a break closing case UART_IIR_RDI
RunsTx_break(iir) == iir = "THRI"

RunsTx(iir) == iir \in {"RDI", "THRI"}

\* line d interrupts the CPU: its gate is installed, its PIC line enabled,
\* the UART raises a condition and the CPU accepts interrupts
Interrupts(d) == eflags_IF /\ d \in gate /\ d \in picen /\ IntrRaised(d)

\* an interrupt is taken before the next foreground instruction
Running == \A d \in Lines : ~Interrupts(d)

\* irqinthandc returning without the write of the interrupt-enable register
irqinthandc_keepier(d) ==
  /\ Interrupts(d)
  /\ LET iir == IIR(d)
         ch == rbr[d]
         e1 == IF RunsRx(iir) THEN RxEnqueue(ch) ELSE NoOp(inQueue)
         e2 == IF RunsRx(iir) THEN RxEcho(d, ch) ELSE NoOp(echoQueue)
         t1 == IF RunsTx(iir) THEN TxFrom(e2.q, "echo")
                              ELSE [q |-> e2.q, r |-> 0, sent |-> <<>>, log |-> <<>>]
         t2 == IF RunsTx(iir) THEN TxFrom(outQueue, "out")
                              ELSE [q |-> outQueue, r |-> 0, sent |-> <<>>, log |-> <<>>]
         sent == t1.sent \o t2.sent
     IN /\ inQueue' = e1.q
        /\ echoQueue' = t1.q
        /\ outQueue' = t2.q
        /\ rbr' = IF RunsRx(iir) THEN [rbr EXCEPT ![d] = NoByte] ELSE rbr
        /\ thre' = IF sent # <<>> THEN [thre EXCEPT ![d] = FALSE] ELSE thre
        /\ ier' = ier
        /\ rxAcc' = IF RunsRx(iir) /\ e1.r # FULLQUE THEN Append(rxAcc, ch) ELSE rxAcc
        /\ outSent' = outSent \o t2.sent
        /\ isrlog' = <<Ev("inpt_iir", iir, d), Ev("pic_end_int", "", 0)>>
                     \o (IF RunsRx(iir) THEN <<Ev("inpt_rx", "", ch)>> ELSE <<>>)
                     \o e1.log \o e2.log \o t1.log \o t2.log
                     \o (IF RunsRx(iir) \/ RunsTx(iir) THEN <<>> ELSE <<Ev("debug_log", "#", 0)>>)
  /\ intr' = (pc # "idle")
  /\ UNCHANGED <<echoflag, gate, picen, eflags_IF, frame, rxCount, txCount, outAcc, calls>>

irqinthandc(d) ==
  /\ Interrupts(d)
  /\ LET iir == IIR(d)
         ch == rbr[d]
         e1 == IF RunsRx(iir) THEN RxEnqueue(ch) ELSE NoOp(inQueue)
         e2 == IF RunsRx(iir) THEN RxEcho(d, ch) ELSE NoOp(echoQueue)
         t1 == IF RunsTx(iir) THEN TxFrom(e2.q, "echo")
                              ELSE [q |-> e2.q, r |-> 0, sent |-> <<>>, log |-> <<>>]
         t2 == IF RunsTx(iir) THEN TxFrom(outQueue, "out")
                              ELSE [q |-> outQueue, r |-> 0, sent |-> <<>>, log |-> <<>>]
         sent == t1.sent \o t2.sent
     IN /\ inQueue' = e1.q
        /\ echoQueue' = t1.q
        /\ outQueue' = t2.q
        /\ rbr' = IF RunsRx(iir) THEN [rbr EXCEPT ![d] = NoByte] ELSE rbr
        /\ thre' = IF sent # <<>> THEN [thre EXCEPT ![d] = FALSE] ELSE thre
        /\ ier' = [ier EXCEPT ![d] = {"RDI"}]
        /\ rxAcc' = IF RunsRx(iir) /\ e1.r # FULLQUE THEN Append(rxAcc, ch) ELSE rxAcc
        /\ outSent' = outSent \o t2.sent
        /\ isrlog' = <<Ev("inpt_iir", iir, d), Ev("pic_end_int", "", 0)>>
                     \o (IF RunsRx(iir) THEN <<Ev("inpt_rx", "", ch)>> ELSE <<>>)
                     \o e1.log \o e2.log \o t1.log \o t2.log
                     \o (IF RunsRx(iir) \/ RunsTx(iir) THEN <<>> ELSE <<Ev("debug_log", "#", 0)>>)
                     \o <<Ev("outpt_ier", "RDI", 0)>>
  /\ intr' = (pc # "idle")
  /\ UNCHANGED <<echoflag, gate, picen, eflags_IF, frame, rxCount, txCount, outAcc, calls>>

\* ------------------------------------------------------------ foreground
\* entry of a driver function: fresh locals
Enter(f, d, n, b) ==
  /\ Running /\ pc = "idle" /\ calls < MaxCalls
  /\ calls' = calls + 1
  /\ op' = f /\ dev' = d /\ nchar' = n /\ buf' = b /\ i' = 0
  /\ intr' = FALSE /\ entry_IF' = eflags_IF
  /\ UNCHANGED <<saved_eflags, cnt0, ret, fncode, val, retry>>

Goto(l) == pc' = l

\* ---- ttyinit
CallInit(d) ==
  /\ Enter("ttyinit", d, 0, <<>>) /\ Goto("init_in")
  /\ UNCHANGED <<queues, echoflag, gate, picen, eflags_IF, hw, isrlog,
                 rxCount, txCount, rxAcc, outAcc, outSent>>

ttyinit_in ==
  /\ Running /\ pc = "init_in" /\ Goto("init_out")
  /\ inQueue' = init_queue(inQueue, MAXBUF)
  /\ rxAcc' = <<>>
  /\ UNCHANGED <<outQueue, echoQueue, echoflag, gate, picen, eflags_IF, hw, isrlog,
                 rxCount, txCount, outAcc, outSent, calls,
                 op, dev, nchar, entry_IF, buf, i, saved_eflags, cnt0, ret, fncode, val, retry, intr>>

ttyinit_out ==
  /\ Running /\ pc = "init_out" /\ Goto("init_echo")
  /\ outQueue' = init_queue(outQueue, MAXBUF)
  /\ outAcc' = <<>> /\ outSent' = <<>>
  /\ UNCHANGED <<inQueue, echoQueue, echoflag, gate, picen, eflags_IF, hw, isrlog,
                 rxCount, txCount, rxAcc, calls,
                 op, dev, nchar, entry_IF, buf, i, saved_eflags, cnt0, ret, fncode, val, retry, intr>>

ttyinit_echo ==
  /\ Running /\ pc = "init_echo" /\ Goto("init_port")
  /\ echoQueue' = init_queue(echoQueue, MAXBUF)
  /\ UNCHANGED <<inQueue, outQueue, echoflag, gate, picen, eflags_IF, hw, isrlog, ghost,
                 op, dev, nchar, entry_IF, buf, i, saved_eflags, cnt0, ret, fncode, val, retry, intr>>

\* set_intr_gate and pic_enable_irq for the port, or give up
ttyinit_port ==
  /\ Running /\ pc = "init_port"
  /\ IF dvbaseport(dev) \in {"COM1_BASE", "COM2_BASE"}
       THEN /\ gate' = gate \cup {dev} /\ picen' = picen \cup {dev}
            /\ Goto("init_flag")
       ELSE /\ UNCHANGED <<gate, picen>>
            /\ Goto("done")
  /\ UNCHANGED <<queues, echoflag, eflags_IF, hw, isrlog, ghost,
                 op, dev, nchar, entry_IF, buf, i, saved_eflags, cnt0, ret, fncode, val, retry, intr>>

\* ttyinit_flag with the echo flag left as it was
ttyinit_flag_keep ==
  /\ Running /\ pc = "init_flag" /\ Goto("init_ier")
  /\ UNCHANGED echoflag
  /\ UNCHANGED <<queues, gate, picen, eflags_IF, hw, isrlog, ghost,
                 op, dev, nchar, entry_IF, buf, i, saved_eflags, cnt0, ret, fncode, val, retry, intr>>

\* tty->echoflag = 1;
ttyinit_flag ==
  /\ Running /\ pc = "init_flag" /\ Goto("init_ier")
  /\ echoflag' = [echoflag EXCEPT ![dev] = 1]
  /\ UNCHANGED <<queues, gate, picen, eflags_IF, hw, isrlog, ghost,
                 op, dev, nchar, entry_IF, buf, i, saved_eflags, cnt0, ret, fncode, val, retry, intr>>

ttyinit_ier ==
  /\ Running /\ pc = "init_ier" /\ Goto("done")
  /\ ier' = [ier EXCEPT ![dev] = {"RDI"}]
  /\ UNCHANGED <<queues, echoflag, gate, picen, eflags_IF, rbr, thre, isrlog, ghost,
                 op, dev, nchar, entry_IF, buf, i, saved_eflags, cnt0, ret, fncode, val, retry, intr>>

\* ---- ttyread
CallRead(d, n) ==
  /\ d \in inited
  /\ Enter("ttyread", d, n, <<>>) /\ Goto("rd_loop")
  /\ UNCHANGED <<queues, echoflag, gate, picen, eflags_IF, hw, isrlog,
                 rxCount, txCount, rxAcc, outAcc, outSent>>

\* while (i < nchar) { saved_eflags = get_eflags(); cli();
ttyread_cli ==
  /\ Running /\ pc = "rd_loop" /\ i < nchar /\ Goto("rd_deq")
  /\ saved_eflags' = eflags_IF
  /\ eflags_IF' = FALSE
  /\ UNCHANGED <<queues, echoflag, gate, picen, hw, isrlog, ghost,
                 op, dev, nchar, entry_IF, buf, i, cnt0, ret, fncode, val, retry, intr>>

\* ttyread_dequeue with the loop counter advanced on EMPTYQUE too
ttyread_dequeue_skip ==
  /\ Running /\ pc = "rd_deq" /\ Goto("rd_restore")
  /\ LET e == dequeue(inQueue)
     IN IF e.r # EMPTYQUE
          THEN /\ inQueue' = e.q
               /\ buf' = Append(buf, e.r)
               /\ i' = i + 1
          ELSE /\ buf' = Append(buf, NoByte)
               /\ i' = i + 1
               /\ UNCHANGED inQueue
  /\ UNCHANGED <<outQueue, echoQueue, echoflag, gate, picen, eflags_IF, hw, isrlog, ghost,
                 op, dev, nchar, entry_IF, saved_eflags, cnt0, ret, fncode, val, retry, intr>>

\* if ((ch = dequeue(&inQueue)) != EMPTYQUE) { buf[i] = ch; i++; }
ttyread_dequeue ==
  /\ Running /\ pc = "rd_deq" /\ Goto("rd_restore")
  /\ LET e == dequeue(inQueue)
     IN IF e.r # EMPTYQUE
          THEN /\ inQueue' = e.q
               /\ buf' = Append(buf, e.r)
               /\ i' = i + 1
          ELSE UNCHANGED <<inQueue, buf, i>>
  /\ UNCHANGED <<outQueue, echoQueue, echoflag, gate, picen, eflags_IF, hw, isrlog, ghost,
                 op, dev, nchar, entry_IF, saved_eflags, cnt0, ret, fncode, val, retry, intr>>

\* set_eflags(saved_eflags); }
ttyread_restore ==
  /\ Running /\ pc = "rd_restore" /\ Goto("rd_loop")
  /\ eflags_IF' = saved_eflags
  /\ UNCHANGED <<queues, echoflag, gate, picen, hw, isrlog, ghost,
                 op, dev, nchar, entry_IF, buf, i, saved_eflags, cnt0, ret, fncode, val, retry, intr>>

\* ttyread_return switching the echo of the line back on
ttyread_return_echo ==
  /\ Running /\ pc = "rd_loop" /\ ~(i < nchar) /\ Goto("done")
  /\ ret' = nchar
  /\ echoflag' = [echoflag EXCEPT ![dev] = 1]
  /\ UNCHANGED <<queues, gate, picen, eflags_IF, hw, isrlog, ghost,
                 op, dev, nchar, entry_IF, buf, i, saved_eflags, cnt0, fncode, val, retry, intr>>

\* return nchar;
ttyread_return ==
  /\ Running /\ pc = "rd_loop" /\ ~(i < nchar) /\ Goto("done")
  /\ ret' = nchar
  /\ UNCHANGED <<queues, echoflag, gate, picen, eflags_IF, hw, isrlog, ghost,
                 op, dev, nchar, entry_IF, buf, i, saved_eflags, cnt0, fncode, val, retry, intr>>

\* ---- ttywrite
CallWrite(d, n) ==
  /\ d \in inited
  /\ txCount + n <= MaxTx /\ rxCount + txCount + n <= MaxIO
  /\ Enter("ttywrite", d, n, [k \in 1 .. n |-> TxByte(txCount + k, d)])
  /\ Goto("wr_cli")
  /\ txCount' = txCount + n
  /\ UNCHANGED <<queues, echoflag, gate, picen, eflags_IF, hw, isrlog,
                 rxCount, rxAcc, outAcc, outSent>>

\* cli();  (once, before the loop)
ttywrite_cli ==
  /\ Running /\ pc = "wr_cli" /\ Goto("wr_enq")
  /\ eflags_IF' = FALSE
  /\ UNCHANGED <<queues, echoflag, gate, picen, hw, isrlog, ghost,
                 op, dev, nchar, entry_IF, buf, i, saved_eflags, cnt0, ret, fncode, val, retry, intr>>

\* ttywrite_enqueue with the byte given up when the queue is full
ttywrite_enqueue_drop ==
  /\ Running /\ pc = "wr_enq" /\ i < nchar
  /\ IF outQueue.count >= outQueue.max
       THEN /\ Goto("wr_sti")
            /\ retry' = TRUE
            /\ i' = i + 1
            /\ UNCHANGED <<outQueue, cnt0>>
       ELSE /\ Goto("wr_cnt")
            /\ outQueue' = enqueue_store(outQueue, buf[i + 1])
            /\ cnt0' = outQueue.count
            /\ UNCHANGED <<retry, i>>
  /\ UNCHANGED <<inQueue, echoQueue, echoflag, gate, picen, eflags_IF, hw, isrlog, ghost,
                 op, dev, nchar, entry_IF, buf, saved_eflags, ret, fncode, val, intr>>

\* while (i < nchar) { if (enqueue(&outQueue, buf[i]) != FULLQUE) ...
\* the call of enqueue up to its update of count; the loads of count it made
\* are kept in cnt0
ttywrite_enqueue ==
  /\ Running /\ pc = "wr_enq" /\ i < nchar
  /\ IF outQueue.count >= outQueue.max
       THEN /\ Goto("wr_sti")
            /\ retry' = TRUE
            /\ UNCHANGED <<outQueue, cnt0>>
       ELSE /\ Goto("wr_cnt")
            /\ outQueue' = enqueue_store(outQueue, buf[i + 1])
            /\ cnt0' = outQueue.count
            /\ UNCHANGED retry
  /\ UNCHANGED <<inQueue, echoQueue, echoflag, gate, picen, eflags_IF, hw, isrlog, ghost,
                 op, dev, nchar, entry_IF, buf, i, saved_eflags, ret, fncode, val, intr>>

\* enqueue's count++.  Past the first iteration it runs with interrupts on:
\* an increment in memory counts from the current value, an increment through
\* a register stores the value loaded before the handler ran.
ttywrite_count ==
  /\ Running /\ pc = "wr_cnt" /\ Goto("wr_kick")
  /\ \E c \in {outQueue.count, cnt0} : outQueue' = [outQueue EXCEPT !.count = c + 1]
  /\ outAcc' = Append(outAcc, buf[i + 1])
  /\ UNCHANGED <<inQueue, echoQueue, echoflag, gate, picen, eflags_IF, hw, isrlog,
                 rxCount, txCount, rxAcc, outSent, calls,
                 op, dev, nchar, entry_IF, buf, i, saved_eflags, cnt0, ret, fncode, val, retry, intr>>

\* outpt(baseport+UART_IER, UART_IER_THRI); ... i++;
ttywrite_kick ==
  /\ Running /\ pc = "wr_kick" /\ Goto("wr_sti")
  /\ ier' = [ier EXCEPT ![dev] = {"THRI"}]
  /\ i' = i + 1
  /\ UNCHANGED <<queues, echoflag, gate, picen, eflags_IF, rbr, thre, isrlog, ghost,
                 op, dev, nchar, entry_IF, buf, saved_eflags, cnt0, ret, fncode, val, retry, intr>>

\* sti(); }
ttywrite_sti ==
  /\ Running /\ pc = "wr_sti" /\ Goto("wr_enq")
  /\ eflags_IF' = TRUE
  /\ UNCHANGED <<queues, echoflag, gate, picen, hw, isrlog, ghost,
                 op, dev, nchar, entry_IF, buf, i, saved_eflags, cnt0, ret, fncode, val, retry, intr>>

ttywrite_return ==
  /\ Running /\ pc = "wr_enq" /\ ~(i < nchar) /\ Goto("done")
  /\ ret' = nchar
  /\ UNCHANGED <<queues, echoflag, gate, picen, eflags_IF, hw, isrlog, ghost,
                 op, dev, nchar, entry_IF, buf, i, saved_eflags, cnt0, fncode, val, retry, intr>>

\* ---- ttycontrol
\* ttycontrol storing val whatever the function code
ttycontrol_any(d, f, v) ==
  /\ d \in inited
  /\ Running /\ pc = "idle" /\ calls < MaxCalls /\ Goto("done")
  /\ calls' = calls + 1 /\ intr' = FALSE /\ entry_IF' = eflags_IF
  /\ op' = "ttycontrol" /\ dev' = d /\ fncode' = f /\ val' = v
  /\ echoflag' = [echoflag EXCEPT ![d] = v]
  /\ ret' = 0
  /\ UNCHANGED <<queues, gate, picen, eflags_IF, hw, isrlog,
                 rxCount, txCount, rxAcc, outAcc, outSent,
                 nchar, buf, i, saved_eflags, cnt0, retry>>

\* if (fncode == ECHOCONTROL) tty->echoflag = val; else return -1; return 0;
ttycontrol(d, f, v) ==
  /\ d \in inited
  /\ Running /\ pc = "idle" /\ calls < MaxCalls /\ Goto("done")
  /\ calls' = calls + 1 /\ intr' = FALSE /\ entry_IF' = eflags_IF
  /\ op' = "ttycontrol" /\ dev' = d /\ fncode' = f /\ val' = v
  /\ IF f = "ECHOCONTROL"
       THEN /\ echoflag' = [echoflag EXCEPT ![d] = v]
            /\ ret' = 0
       ELSE /\ ret' = -1
            /\ UNCHANGED echoflag
  /\ UNCHANGED <<queues, gate, picen, eflags_IF, hw, isrlog,
                 rxCount, txCount, rxAcc, outAcc, outSent,
                 nchar, buf, i, saved_eflags, cnt0, retry>>

\* the driver function returns to its caller: its frame is gone
Return ==
  /\ Running /\ pc = "done" /\ Goto("idle")
  /\ op' = "none" /\ dev' = TTY0 /\ nchar' = 0 /\ buf' = <<>> /\ i' = 0
  /\ saved_eflags' = TRUE /\ cnt0' = 0 /\ ret' = 0
  /\ fncode' = "ECHOCONTROL" /\ val' = 0 /\ retry' = FALSE /\ intr' = FALSE
  /\ entry_IF' = TRUE
  /\ UNCHANGED <<queues, echoflag, gate, picen, eflags_IF, hw, isrlog, ghost>>

FncodeSet == {"ECHOCONTROL", "OTHER"}

\* the lengths the callers ask for: none, one, two (a second loop iteration),
\* and the largest (more than a queue holds, for ttywrite)
ReadLens == {0, 1, MaxRead}
WriteLens == {0, 1, 2, MaxTx}

Next ==
  \/ \E d \in Lines : Receive(d)
  \/ \E d \in Lines : Shift(d)
  \/ \E d \in Lines : irqinthandc(d)
  \/ \E d \in Devs : CallInit(d)
  \/ ttyinit_in \/ ttyinit_out \/ ttyinit_echo
  \/ ttyinit_port \/ ttyinit_flag \/ ttyinit_ier
  \/ \E d \in Lines, n \in ReadLens : CallRead(d, n)
  \/ ttyread_cli \/ ttyread_dequeue \/ ttyread_restore \/ ttyread_return
  \/ \E d \in Lines, n \in WriteLens : CallWrite(d, n)
  \/ ttywrite_cli \/ ttywrite_enqueue \/ ttywrite_count \/ ttywrite_kick
  \/ ttywrite_sti \/ ttywrite_return
  \/ \E d \in Lines, f \in FncodeSet, v \in {0, 1} : ttycontrol(d, f, v)
  \/ Return

Spec == Init /\ [][Next]_vars

\* The steps of a driver function that is running.  The CPU executes them
\* whenever no handler runs; the UART raises every enabled interrupt whose
\* condition holds and shifts out what is written to it.  Nothing obliges
\* the callers to call again or the lines to deliver more bytes.
FgStep ==
  \/ ttyinit_in \/ ttyinit_out \/ ttyinit_echo
  \/ ttyinit_port \/ ttyinit_flag \/ ttyinit_ier
  \/ ttyread_cli \/ ttyread_dequeue \/ ttyread_restore \/ ttyread_return
  \/ ttywrite_cli \/ ttywrite_enqueue \/ ttywrite_count \/ ttywrite_kick
  \/ ttywrite_sti \/ ttywrite_return
  \/ Return

FairSpec ==
  /\ Spec
  /\ WF_vars(FgStep)
  /\ \A d \in Lines : WF_vars(irqinthandc(d)) /\ WF_vars(Shift(d))

\* The driver with TTY0 delivering up to MaxBurst bytes, more than the receive
\* queue holds, while the callers make short transfers.
BurstLens == {0, 1}

NextBurst ==
  \/ ReceiveBurst(TTY0)
  \/ \E d \in Lines : Shift(d)
  \/ \E d \in Lines : irqinthandc(d)
  \/ \E d \in Devs : CallInit(d)
  \/ ttyinit_in \/ ttyinit_out \/ ttyinit_echo
  \/ ttyinit_port \/ ttyinit_flag \/ ttyinit_ier
  \/ \E d \in Lines, n \in BurstLens : CallRead(d, n)
  \/ ttyread_cli \/ ttyread_dequeue \/ ttyread_restore \/ ttyread_return
  \/ \E d \in Lines, n \in BurstLens : CallWrite(d, n)
  \/ ttywrite_cli \/ ttywrite_enqueue \/ ttywrite_count \/ ttywrite_kick
  \/ ttywrite_sti \/ ttywrite_return
  \/ \E d \in Lines, f \in FncodeSet, v \in {0, 1} : ttycontrol(d, f, v)
  \/ Return

BurstSpec == Init /\ [][NextBurst]_vars

\* ================================================================ claims
Suffix(s, n) == SubSeq(s, Len(s) - n + 1, Len(s))

ReadDone == pc = "done" /\ op = "ttyread"
WriteDone == pc = "done" /\ op = "ttywrite"

\* C1: ttyread returns nchar, and only with nchar bytes in buf: the bytes the
\* handler put into the receive queue, in the order it put them there (buf
\* followed by what is still queued is the tail of the delivered sequence).
C1_ReadBlocksForAll ==
  ReadDone =>
    /\ ret = nchar
    /\ Len(buf) = nchar
    /\ Len(rxAcc) >= nchar + inQueue.count
    /\ buf \o Items(inQueue) = Suffix(rxAcc, nchar + inQueue.count)

\* a read of three bytes that had to wait for the handler and got all three
C1_Witness ==
  /\ ReadDone /\ nchar = MaxRead /\ Len(buf) = MaxRead /\ intr
  /\ buf = SubSeq(rxAcc, 1, MaxRead)

\* C2: ttywrite returns nchar, and only when every byte of buf has been
\* accepted by enqueue, once each and in buffer order, whatever nchar is and
\* however often the queue was full.
C2_WriteAcceptsAll ==
  WriteDone =>
    /\ ret = nchar
    /\ i = nchar
    /\ Len(outAcc) >= nchar
    /\ Suffix(outAcc, nchar) = buf

\* a write of more bytes than the queue holds that met a full queue and returned
C2_Witness == WriteDone /\ nchar = MaxTx /\ nchar > MAXBUF /\ retry /\ ret = nchar

\* C3: every byte accepted into the transmit queue is eventually written to
\* the transmit register: once bytes are queued the handler keeps being
\* invoked until the queue is empty, with no further write or receive event.
C3_TransmitDrains == (outQueue.count > 0) ~> (outQueue.count = 0)

TxWrites(log) == SelectSeq(log, LAMBDA e : e.op = "outpt_tx")
HasOp(log, o) == \E k \in 1 .. Len(log) : log[k].op = o

\* the echo queue as the handler finds it on reaching case UART_IIR_THRI
EchoAtService(d) == IF RunsRx(IIR(d)) THEN RxEcho(d, rbr[d]).q ELSE echoQueue

C6_ExclusiveDispatch ==
  [][\A d \in Lines :
       irqinthandc(d) =>
         /\ ~(HasOp(isrlog', "inpt_rx")
              /\ (HasOp(isrlog', "dequeue") \/ HasOp(isrlog', "outpt_tx")))
         /\ IIR(d) = "RDI" =>
              /\ ~HasOp(isrlog', "dequeue") /\ ~HasOp(isrlog', "outpt_tx")
              /\ outQueue' = outQueue
              /\ thre' = thre]_vars

\* C7: a receive interrupt with the line's echo flag cleared appends the byte
\* to the receive queue, leaves the echo queue empty and untouched and does
\* not write the byte to the transmit register; with the flag set the byte is
\* also enqueued into the echo queue.
C7_EchoFlagGatesEcho ==
  [][\A d \in Lines :
       (irqinthandc(d) /\ IIR(d) = "RDI") =>
         LET ch == rbr[d]
         IN /\ queuecount(inQueue) < MAXBUF => Items(inQueue') = Append(Items(inQueue), ch)
            /\ echoflag[d] = 0 =>
                 /\ echoQueue' = echoQueue
                 /\ queuecount(echoQueue') = 0
                 /\ \A k \in 1 .. Len(isrlog') :
                      ~(isrlog'[k].q = "echo" \/ (isrlog'[k].op = "outpt_tx" /\ isrlog'[k].v = ch))
            /\ echoflag[d] # 0 =>
                 \E k \in 1 .. Len(isrlog') : isrlog'[k] = Ev("enqueue", "echo", ch)]_vars

\* ttycontrol(dev, ECHOCONTROL, 0) has just returned and the handler has taken
\* a byte of that line since: the byte is the newest of the receive queue and
\* the handler neither touched the echo queue nor wrote to the transmit register
C7_Witness ==
  /\ pc = "done" /\ op = "ttycontrol" /\ fncode = "ECHOCONTROL" /\ val = 0
  /\ echoflag[dev] = 0 /\ intr
  /\ Len(isrlog) >= 3
  /\ isrlog[1] = Ev("inpt_iir", "RDI", dev)
  /\ isrlog[3].op = "inpt_rx"
  /\ queuecount(inQueue) > 0
  /\ Items(inQueue)[queuecount(inQueue)] = isrlog[3].v
  /\ queuecount(echoQueue) = 0
  /\ ~HasOp(isrlog, "outpt_tx")

\* C8: ttycontrol with fncode ECHOCONTROL stores val into the echo flag of the
\* line and returns 0; with any other fncode it returns -1 and leaves the echo
\* flags and the three queues unchanged.
C8_ControlContract ==
  [][(pc = "idle" /\ op' = "ttycontrol") =>
       IF fncode' = "ECHOCONTROL"
         THEN /\ echoflag' = [echoflag EXCEPT ![dev'] = val']
              /\ ret' = 0
         ELSE /\ ret' = -1
              /\ echoflag' = echoflag
              /\ queues' = queues]_vars

\* an unsupported function code was refused although its val differs from the
\* echo flag and the receive queue holds a byte
C8_Witness ==
  /\ pc = "done" /\ op = "ttycontrol" /\ fncode = "OTHER" /\ ret = -1
  /\ val # echoflag[dev] /\ ~intr
  /\ queuecount(inQueue) > 0

ValidInitDone == pc = "done" /\ op = "ttyinit" /\ dev \in Lines

\* C9: whatever the state ttyinit is called in, and so also right after an
\* earlier ttyinit of the same line, it returns with the transmit and echo
\* queues empty, all three queues reset (front, rear, count zero) unless the
\* handler ran meanwhile, every capacity MAXBUF, the echo flag set and only
\* the receive interrupt enabled in the UART.
C9_InitIdempotent ==
  ValidInitDone =>
    /\ queuecount(outQueue) = 0 /\ queuecount(echoQueue) = 0
    /\ ~intr => /\ inQueue = init_queue(inQueue, MAXBUF)
                /\ outQueue = init_queue(outQueue, MAXBUF)
                /\ echoQueue = init_queue(echoQueue, MAXBUF)
    /\ inQueue.max = MAXBUF /\ outQueue.max = MAXBUF /\ echoQueue.max = MAXBUF
    /\ echoflag[dev] = 1
    /\ ier[dev] = {"RDI"}
    /\ dev \in gate /\ dev \in picen

\* the second of two successive ttyinit calls on one line has returned; the
\* handler had put a byte of that line into the receive queue after the first
C9_Witness ==
  /\ ValidInitDone /\ calls = 2 /\ ~intr
  /\ isrlog # <<>> /\ isrlog[1] = Ev("inpt_iir", "RDI", dev)
  /\ HasOp(isrlog, "enqueue")
  /\ queuecount(inQueue) = 0

\* the bytes of line e that a queue holds, oldest first
BytesOf(q, e) == SelectSeq(Items(q), LAMBDA b : (IsRx(b) \/ IsTx(b)) /\ LineOf(b) = e)
KeepsLine(e) ==
  /\ BytesOf(inQueue', e) = BytesOf(inQueue, e)
  /\ BytesOf(outQueue', e) = BytesOf(outQueue, e)
  /\ BytesOf(echoQueue', e) = BytesOf(echoQueue, e)

\* C10: each line has its own queues: a step of ttyinit, ttyread or ttywrite
\* for one device, and the handler of one device, leave the bytes every other
\* line has in the receive, transmit and echo queues where they are.
C10_OwnQueues ==
  [][\A e \in Lines :
       (\/ pc # "idle" /\ pc' # pc /\ dev # e
        \/ \E d \in Lines \ {e} : irqinthandc(d))
       => KeepsLine(e)]_vars

\* a step of the running driver function (the handler leaves pc alone)
FgStepOf(f) == pc # "idle" /\ op = f /\ pc' # pc

\* C11: ttyinit on a device whose base address is no COM port gives up: it
\* installs no interrupt gate, enables no interrupt-controller line, leaves
\* every echo flag and every interrupt-enable register as they were, and
\* leaves the bytes queued for the lines initialised before in place.
C11_BadDeviceAborts ==
  [][(FgStepOf("ttyinit") /\ dev \notin Lines) =>
       /\ gate' = gate /\ picen' = picen
       /\ echoflag' = echoflag
       /\ ier' = ier
       /\ Items(inQueue') = Items(inQueue)
       /\ Items(outQueue') = Items(outQueue)
       /\ Items(echoQueue') = Items(echoQueue)]_vars

Occupancy ==
  /\ queuecount(inQueue) \in 0 .. MAXBUF
  /\ queuecount(outQueue) \in 0 .. MAXBUF
  /\ queuecount(echoQueue) \in 0 .. MAXBUF

\* the handler completed: its last operation is the write of IER
Completed(log) == log # <<>> /\ log[Len(log)] = Ev("outpt_ier", "RDI", 0)

\* C12: the occupancy of the receive, transmit and echo queue stays within
\* 0 .. MAXBUF whatever ttyread, ttywrite and the handler do; a handler
\* invocation that receives a byte while the receive queue (or the echo
\* queue) is full loses the byte, leaves that queue exactly as it was and
\* completes.
C12_BoundedQueues ==
  /\ []Occupancy
  /\ [][\A d \in Lines :
          (irqinthandc(d) /\ RunsRx(IIR(d))) =>
            /\ queuecount(inQueue) >= MAXBUF =>
                 /\ inQueue' = inQueue
                 /\ ~\E k \in 1 .. Len(isrlog') : isrlog'[k] = Ev("enqueue", "in", rbr[d])
                 /\ Completed(isrlog')
            /\ (queuecount(echoQueue) >= MAXBUF /\ echoflag[d] # 0) =>
                 /\ Items(echoQueue') = Items(echoQueue)
                 /\ Completed(isrlog')]_vars

\* the handler has just met a full receive queue: the byte is lost, the six
\* bytes queued before are still there in order
C12_Witness ==
  /\ queuecount(inQueue) = MAXBUF
  /\ Items(inQueue) = rxAcc
  /\ \E k \in 1 .. Len(isrlog) : isrlog[k].op = "enqueue_full" /\ isrlog[k].q = "in"
  /\ Completed(isrlog)

\* the running call is about to make, or is inside, a queue access
InQueueAccess ==
  \/ op = "ttyread" /\ pc = "rd_deq"
  \/ op = "ttywrite" /\ pc = "wr_enq" /\ i < nchar
  \/ op = "ttywrite" /\ pc = "wr_cnt"

\* C13: every dequeue attempt of ttyread and every enqueue attempt of
\* ttywrite, the first and every later one, runs with the CPU interrupt flag
\* cleared, so the handler cannot run inside a foreground queue access.
C13_CriticalSections == InQueueAccess => ~eflags_IF

\* the step that ends one attempt of the running call with bytes still to go
EndsAttempt ==
  /\ \/ op = "ttyread" /\ pc = "rd_restore" /\ pc' = "rd_loop"
     \/ op = "ttywrite" /\ pc = "wr_sti" /\ pc' = "wr_enq"
  /\ i' < nchar'

\* C14: the interrupt-disabled span of ttyread and ttywrite ends with the
\* attempt: when an attempt is over and the call has bytes left, the CPU
\* interrupt flag is set again, so a pending handler runs before the next
\* attempt and a caller spinning on an empty or full queue does not lock out
\* the handler that would unblock it.
C14_NoStarvation == [][EndsAttempt => eflags_IF']_vars

EoiCount(log) == Len(SelectSeq(log, LAMBDA e : e.op = "pic_end_int"))
TouchesQueue(e) == e.op \in {"enqueue", "enqueue_full", "dequeue"}

\* C15: every invocation of the handler sends end-of-interrupt to the
\* interrupt controller exactly once and before it touches a queue, and
\* returns with the receive-data interrupt enabled in the line's
\* interrupt-enable register.
C15_EoiOnceRdiArmed ==
  [][\A d \in Lines :
       irqinthandc(d) =>
         /\ EoiCount(isrlog') = 1
         /\ \A k \in 1 .. Len(isrlog') :
              TouchesQueue(isrlog'[k]) => \E j \in 1 .. (k - 1) : isrlog'[j].op = "pic_end_int"
         /\ "RDI" \in ier'[d]
         /\ Completed(isrlog')]_vars

\* the handler has served the transmit interrupt that ttywrite had enabled in
\* place of the receive interrupt, and the receive interrupt is enabled again
C15_Witness ==
  /\ op = "ttywrite" /\ pc # "idle" /\ intr
  /\ isrlog # <<>> /\ isrlog[1] = Ev("inpt_iir", "THRI", dev)
  /\ EoiCount(isrlog) = 1
  /\ HasOp(isrlog, "dequeue")
  /\ ier[dev] = {"RDI"}

QueueNames == {"in", "echo", "out"}
OpsOn(log, name) == Len(SelectSeq(log, LAMBDA e : TouchesQueue(e) /\ e.q = name))

\* C16: the handler never blocks: an invocation ends after at most one
\* enqueue or dequeue on each queue, whatever the queues hold; serving a
\* transmit interrupt with the echo and the transmit queue both empty it
\* writes nothing to the transmit register and changes no queue.
C16_IsrBounded ==
  [][\A d \in Lines :
       irqinthandc(d) =>
         /\ Completed(isrlog')
         /\ \A name \in QueueNames : OpsOn(isrlog', name) <= 1
         /\ (IIR(d) = "THRI" /\ queuecount(echoQueue) = 0 /\ queuecount(outQueue) = 0) =>
              /\ queues' = queues
              /\ thre' = thre
              /\ ~HasOp(isrlog', "outpt_tx")]_vars

\* C17: once ttyinit has set it, the echo flag of a line changes only in a
\* call of ttycontrol with ECHOCONTROL for that line (or in another ttyinit):
\* no step of ttyread or ttywrite and no invocation of the handler changes an
\* echo flag; the handler only reads it.
C17_EchoFlagFrame ==
  [][/\ (FgStepOf("ttyread") \/ FgStepOf("ttywrite") \/ \E d \in Lines : irqinthandc(d))
          => echoflag' = echoflag
     /\ \A d \in Lines :
          echoflag'[d] # echoflag[d] =>
            \/ pc = "idle" /\ op' = "ttycontrol" /\ fncode' = "ECHOCONTROL" /\ dev' = d
            \/ FgStepOf("ttyinit") /\ dev = d]_vars

\* a ttyread has returned a byte the handler delivered while the echo of the
\* line, switched off by ttycontrol, stayed off
C17_Witness ==
  /\ ReadDone /\ nchar > 0 /\ intr
  /\ echoflag[dev] = 0
  /\ isrlog # <<>> /\ isrlog[1] = Ev("inpt_iir", "RDI", dev)
  /\ ~HasOp(isrlog, "outpt_tx")

\* C18: ttyread and ttywrite return with the CPU interrupt flag as it was
\* when they were called, for every nchar, nchar = 0 included.
C18_InterruptFlagRestored ==
  (pc = "done" /\ op \in {"ttyread", "ttywrite"}) => eflags_IF = entry_IF

\* a line whose ttyinit has run to its end
InitComplete(d) ==
  d \in inited /\ ~(op = "ttyinit" /\ dev = d /\ pc \in {"init_flag", "init_ier"})

\* C19: from the end of ttyinit on, the receive-data interrupt of the line is
\* enabled in its interrupt-enable register in every state between handler
\* invocations, also while a ttywrite is in progress.
C19_RdiStaysEnabled == \A d \in Lines : InitComplete(d) => "RDI" \in ier[d]

C21_EchoQueueTransient ==
  /\ [](queuecount(echoQueue) = 0)
  /\ [][\A d \in Lines :
          irqinthandc(d) =>
            /\ queuecount(EchoAtService(d)) <= 1
            /\ \A k \in 1 .. Len(isrlog') :
                 isrlog'[k] = Ev("enqueue", "echo", rbr[d]) =>
                   /\ k + 2 <= Len(isrlog')
                   /\ isrlog'[k + 1] = Ev("dequeue", "echo", rbr[d])
                   /\ isrlog'[k + 2] = Ev("outpt_tx", "echo", rbr[d])]_vars

\* the handler has just echoed a received byte: it went through the echo
\* queue to the transmit register and the echo queue is empty again
C21_Witness ==
  /\ isrlog # <<>> /\ isrlog[1].q = "RDI"
  /\ \E k \in 1 .. Len(isrlog) : isrlog[k].op = "enqueue" /\ isrlog[k].q = "echo"
  /\ \E k \in 1 .. Len(isrlog) : isrlog[k].op = "outpt_tx" /\ isrlog[k].q = "echo"
  /\ queuecount(echoQueue) = 0
  /\ queuecount(inQueue) > 0
  /\ \E d \in Lines : ~thre[d]

====
